---- MODULE Spec2Model ----
(***************************************************************************)
(* A model of the shadowsocks-go server fork qunxyz/shadowsocks-go:        *)
(*   - ConnAead, the AEAD chunked framing (Pack / UnPack),                 *)
(*   - handleConnection, the life of one client session,                   *)
(*   - PasswdManager, updatePasswd and run, the multi-port server with     *)
(*     live reload, and the connections its server loops accept,           *)
(*   - getRequest, the decoding of the request header.                     *)
(* The parts share no state in the program; each has its own specification *)
(* (SpecAead and SpecDuplex, SpecConn, SpecMgr, SpecServe and SpecMethod,  *)
(* SpecReq) over the same variables.                                       *)
(***************************************************************************)
EXTENDS Integers, Sequences, FiniteSets, TLC

(***************************************************************************)
(* Bounds of the model.                                                    *)
(***************************************************************************)
\* number of frames (Pack calls and peer frames) one sender emits
MaxPacks == 2

\* number of client connections handed to handleConnection
MaxConns == 2

\* number of reload signals (SIGHUP) delivered
MaxReloads == 2

\* number of server loops (run goroutines) ever started
MaxLoops == 3

\* number of initEncrypt calls made on one ConnAead
MaxInits == 2

\* number of connections the server loops accept
MaxAccepts == 2

(***************************************************************************)
(* ConnAead: program constants and byte-level helpers.                     *)
(***************************************************************************)
\* ConnAead.getPayloadSizeMask: 0x3FFF
PayloadSizeMask == 16383

\* cipher.AEAD Overhead(): the fixed authentication tag size
Overhead == 16

\* CipherAead.IVSize(): the salt length of the method
IVSize == 32

Nil == -1

\* a & b on non-negative ints
RECURSIVE BitAnd(_, _)
BitAnd(a, b) ==
    IF a = 0 \/ b = 0 THEN 0
    ELSE ((a % 2) * (b % 2)) + 2 * BitAnd(a \div 2, b \div 2)

\* Go's byte(x) conversion of a non-negative int
ToByte(x) == x % 256

\* Pack, line 106: packet_buf[0], packet_buf[1] = byte(payload_len>>8), byte(payload_len)
EncodeHeader(payload_len) == << ToByte(payload_len \div 256), ToByte(payload_len) >>

\* UnPack, line 174, as Go parses it: << and & bind tighter than +, so the
\* expression is (int(header[0])<<8) + (int(header[1]) & mask).
DecodePayloadSize(h0, h1) == (h0 * 256) + BitAnd(h1, PayloadSizeMask)

\* Pack, line 94, as a chunk count that is one more than the whole chunks
ChunkNum_FloorPlusOne(packet_len) == (packet_len \div PayloadSizeMask) + 1

\* Pack, line 94: math.Ceil(float64(packet_len)/float64(mask)); the float
\* division is exact enough for every length below 2^40.
ChunkNum(packet_len) == (packet_len + PayloadSizeMask - 1) \div PayloadSizeMask

(***************************************************************************)
(* Byte strings.  A buffer is a sequence of items.  Plaintext handed to    *)
(* Pack is the generic payload: byte i of packet number pkt is identified  *)
(* by (pkt, i), so a run of plaintext is a slice [pkt, lo, hi) and two     *)
(* plaintext strings are equal iff their normalised slice lists are.       *)
(*   kind "iv"    the salt, IVSize bytes, in clear                         *)
(*   kind "hdr"   a sealed 2-byte header <<h0, h1>> under nonce            *)
(*   kind "pay"   a sealed payload slice under nonce                       *)
(*   kind "plain" a run of decrypted plaintext                             *)
(*   kind "junk"  bytes that are no whole sealed message                   *)
(***************************************************************************)
Item(kind, nonce, h0, h1, pkt, lo, hi) ==
    [kind |-> kind, nonce |-> nonce, h0 |-> h0, h1 |-> h1,
     pkt |-> pkt, lo |-> lo, hi |-> hi]

IvItem == Item("iv", Nil, 0, 0, 0, 0, 0)
JunkItem == Item("junk", Nil, 0, 0, 0, 0, 0)
PlainItem(pkt, lo, hi) == Item("plain", Nil, 0, 0, pkt, lo, hi)

\* CipherAead.Encrypt(dst, src): seals src as one AEAD message under the
\* direction's next nonce; the ciphertext is len(src) + Overhead bytes.
SealHeader(nonce, hdr) == Item("hdr", nonce, hdr[1], hdr[2], 0, 0, 0)
SealPayload(nonce, pkt, lo, hi) == Item("pay", nonce, 0, 0, pkt, lo, hi)

Size(it) ==
    CASE it.kind = "iv" -> IVSize
      [] it.kind = "hdr" -> 2 + Overhead
      [] it.kind = "pay" -> (it.hi - it.lo) + Overhead
      [] OTHER -> it.hi - it.lo

RECURSIVE BytesFrom(_, _)
BytesFrom(buf, pos) ==
    IF pos > Len(buf) THEN 0 ELSE Size(buf[pos]) + BytesFrom(buf, pos + 1)

\* bytes.Buffer.Write of a run of plaintext: the bytes are appended; adjacent
\* runs of the same packet are one run.
WritePlain(buf, pkt, lo, hi) ==
    IF hi = lo THEN buf
    ELSE IF Len(buf) > 0 /\ buf[Len(buf)].kind = "plain"
            /\ buf[Len(buf)].pkt = pkt /\ buf[Len(buf)].hi = lo
         THEN [buf EXCEPT ![Len(buf)].hi = hi]
         ELSE Append(buf, PlainItem(pkt, lo, hi))

(***************************************************************************)
(* State.                                                                  *)
(***************************************************************************)
VARIABLES
    \* --- ConnAead ---
    snd,         \* the packing side's ConnAead
    rcv,         \* the unpacking side's ConnAead; its reader reads snd's output
    rdPos,       \* position of rcv's reader in the stream (index of next item)
    sndClosed,   \* the packing side has closed the stream
    rcvErr,      \* the error UnPack / initDecrypt returned, "" if none yet
    packets,     \* history: the lengths of the payloads handed to Pack
    peerFrames,  \* history: frames sealed by a peer that is not Pack
    lastHeader,  \* history: <<h0, h1, payload_size>> of the last verified header
    tampered,    \* the item of the stream altered in flight, 0 if none
    encInits,    \* history: per initEncrypt call on snd, had Pack emitted a chunk
    \* --- handleConnection ---
    handlers,    \* per connection: the handler goroutine, its sockets and relays
    connCnt,     \* the global connCnt
    \* --- PasswdManager, updatePasswd, run ---
    mainPc,       \* main: "start", then "waitSignal"
    config,       \* the global config: its PortPassword, port -> password
    method,       \* the global config: its Method
    portListener, \* passwdManager.portListener: port -> PortListener
    listeners,    \* the listening sockets net.Listen created: port, open
    loops,        \* the run goroutines: port, password, origin, pc, ln,
                  \* cipher template and its method
    reload,       \* the goroutine of waitSignal, inside updatePasswd
    exited,       \* os.Exit has been called
    mu,           \* passwdManager's sync.Mutex: the task that holds it
    accepted,     \* the connections the run goroutines accepted and handed
                  \* to handleConnection: listener, cipher, sockets, relay
    hist,         \* history of the PasswdManager calls, for the claims
    \* --- getRequest ---
    rq,           \* one call of getRequest: the request on the wire, the bytes
                  \* that have arrived, where the call is, what it returned
    \* --- a ConnAead serving both directions ---
    duplex,       \* the ConnAead of a connection that packs and unpacks
    dxPos,        \* position of its reader in the peer's stream
    dxPacks       \* history: the number of payloads handed to its Pack

aeadVars ==
    <<snd, rcv, rdPos, sndClosed, rcvErr, packets, peerFrames, lastHeader,
      tampered, encInits>>

connVars == <<handlers, connCnt>>

mgrVars ==
    <<mainPc, config, method, portListener, listeners, loops, reload, exited,
      mu, accepted, hist>>

reqVars == <<rq>>

duplexVars == <<duplex, dxPos, dxPacks>>

\* the parts of the state an action of another part leaves alone
OnlyAead == UNCHANGED <<connVars, mgrVars, reqVars, duplexVars>>
OnlyConn == UNCHANGED <<aeadVars, mgrVars, reqVars, duplexVars>>
OnlyMgr == UNCHANGED <<aeadVars, connVars, reqVars, duplexVars>>
OnlyReq == UNCHANGED <<aeadVars, connVars, mgrVars, duplexVars>>
OnlyDuplex == UNCHANGED <<aeadVars, connVars, mgrVars, reqVars>>

vars ==
    <<snd, rcv, rdPos, sndClosed, rcvErr, packets, peerFrames, lastHeader,
      tampered, encInits,
      handlers, connCnt,
      mainPc, config, method, portListener, listeners, loops, reload, exited,
      mu, accepted, hist, rq, duplex, dxPos, dxPacks>>

(***************************************************************************)
(* ConnAead operations.  A ConnAead is a record                            *)
(*   CipherInst  the pointer is non-nil                                    *)
(*   Enc, Dec    Nil, or the next nonce of the direction                   *)
(*   keyOk       the decrypt key was derived from the sender's salt        *)
(*   salts       the number of salts the cipher instance has generated     *)
(*   dataBuffer  the items written to dataBuffer                           *)
(*   reader      "" (nil), or the name of the stream it reads              *)
(***************************************************************************)
ZeroConnAead ==
    [CipherInst |-> FALSE, Enc |-> Nil, Dec |-> Nil, keyOk |-> FALSE,
     salts |-> 0, dataBuffer |-> <<>>, reader |-> ""]

\* ConnAead.Init: a fresh dataBuffer, the reader, the cipher instance of cipher
ConnInit(c, r) ==
    [c EXCEPT !.CipherInst = TRUE, !.dataBuffer = <<>>, !.reader = r]

\* CipherAead.Init(nil, Encrypt): generates the salt, derives the key, nonce 0
CipherInitEncrypt(c) == [c EXCEPT !.Enc = 0, !.salts = @ + 1]

\* CipherAead.Init(iv, Decrypt): derives the key from the salt read, nonce 0
CipherInitDecrypt(c, iv) == [c EXCEPT !.Dec = 0, !.keyOk = (iv.kind = "iv")]

\* cipher.AEAD.Open under the direction's next nonce: verifies only a whole
\* message sealed with the same key under that nonce
Opens(c, it) == c.keyOk /\ it.kind \in {"hdr", "pay"} /\ it.nonce = c.Dec

\* io.ReadFull(this.reader, buf) with len(buf) = k > 0
ReadFull(stream, pos, k) ==
    IF pos > Len(stream)
    THEN [err |-> TRUE, item |-> JunkItem, pos |-> pos]
    ELSE IF Size(stream[pos]) = k
    THEN [err |-> FALSE, item |-> stream[pos], pos |-> pos + 1]
    ELSE IF BytesFrom(stream, pos) < k
    THEN [err |-> TRUE, item |-> JunkItem, pos |-> Len(stream) + 1]
    ELSE [err |-> FALSE, item |-> JunkItem, pos |-> Len(stream) + 1]

\* initEncrypt without its guard: it initialises on every call
initEncrypt_NoGuard(c, r) ==
    LET c1 == CipherInitEncrypt(ConnInit(c, r))
    IN  [c1 EXCEPT !.dataBuffer = Append(@, IvItem)]

\* ConnAead.initEncrypt
initEncrypt(c, r) ==
    IF c.CipherInst /\ c.Enc # Nil THEN c
    ELSE LET c1 == CipherInitEncrypt(ConnInit(c, r))
         IN  [c1 EXCEPT !.dataBuffer = Append(@, IvItem)]

\* ConnAead.getIV
getIV(stream, pos) == ReadFull(stream, pos, IVSize)

\* ConnAead.initDecrypt: the ConnAead, the reader position and the error
initDecrypt(c, r, stream, pos) ==
    IF c.CipherInst /\ c.Dec # Nil THEN [c |-> c, pos |-> pos, err |-> ""]
    ELSE LET c1 == ConnInit(c, r)
             iv == getIV(stream, pos)
         IN  IF iv.err THEN [c |-> c1, pos |-> iv.pos, err |-> "read iv"]
             ELSE [c |-> CipherInitDecrypt(c1, iv.item), pos |-> iv.pos, err |-> ""]

\* Pack, line 121: payload := packet_data[:payload_len]; done is the number of
\* bytes of packet_data already packed by earlier iterations.
PayloadSlice(done, payload_len) == <<0, payload_len>>

\* the loop of Pack with the payload ciphertext placed before the header's
RECURSIVE PackLoop_PayloadFirst(_, _, _, _, _, _)
PackLoop_PayloadFirst(pkt, n, chunk_counter, packet_len, nonce, buf) ==
    IF ~(chunk_counter > 0) THEN [dataBuffer |-> buf, Enc |-> nonce]
    ELSE LET payload_len == IF packet_len > PayloadSizeMask
                            THEN PayloadSizeMask ELSE packet_len
             payload == PayloadSlice(n - packet_len, payload_len)
             header == SealHeader(nonce, EncodeHeader(payload_len))
             body == SealPayload(nonce + 1, pkt, payload[1], payload[2])
         IN  PackLoop_PayloadFirst(pkt, n, chunk_counter - 1,
                                   packet_len - payload_len,
                                   nonce + 2, buf \o <<body, header>>)

\* Pack, lines 96-145: the loop, from chunk_counter, packet_len, the nonce and
\* the buffer; n is len(packet_data).
RECURSIVE PackLoop(_, _, _, _, _, _)
PackLoop(pkt, n, chunk_counter, packet_len, nonce, buf) ==
    IF ~(chunk_counter > 0) THEN [dataBuffer |-> buf, Enc |-> nonce]
    ELSE LET payload_len == IF packet_len > PayloadSizeMask
                            THEN PayloadSizeMask ELSE packet_len
             payload == PayloadSlice(n - packet_len, payload_len)
             header == SealHeader(nonce, EncodeHeader(payload_len))
             body == SealPayload(nonce + 1, pkt, payload[1], payload[2])
         IN  PackLoop(pkt, n, chunk_counter - 1, packet_len - payload_len,
                      nonce + 2, buf \o <<header, body>>)

\* ConnAead.Pack(packet_data), packet_data the generic payload pkt of n bytes
Pack(c, pkt, n) ==
    LET r == PackLoop(pkt, n, ChunkNum(n), n, c.Enc, c.dataBuffer)
    IN  [c EXCEPT !.dataBuffer = r.dataBuffer, !.Enc = r.Enc]

\* UnPack with the payload written to dataBuffer whether or not it verified
UnPack_WritesUnverified(c, stream, pos) ==
    LET rh == ReadFull(stream, pos, 2 + Overhead) IN
    IF rh.err THEN [c |-> c, pos |-> rh.pos, err |-> "read header", hdr |-> <<>>]
    ELSE IF ~Opens(c, rh.item)
    THEN [c |-> c, pos |-> rh.pos, err |-> "decrypt header", hdr |-> <<>>]
    ELSE
      LET c1 == [c EXCEPT !.Dec = @ + 1]
          payload_size == DecodePayloadSize(rh.item.h0, rh.item.h1)
          hdr == <<rh.item.h0, rh.item.h1, payload_size>>
          rp == ReadFull(stream, rh.pos, payload_size + Overhead)
      IN  IF rp.err
          THEN [c |-> c1, pos |-> rp.pos, err |-> "read payload", hdr |-> hdr]
          ELSE IF ~Opens(c1, rp.item)
          THEN [c |-> [c1 EXCEPT !.dataBuffer = Append(@, rp.item)],
                pos |-> rp.pos, err |-> "decrypt payload", hdr |-> hdr]
          ELSE [c |-> [c1 EXCEPT !.Dec = @ + 1,
                                 !.dataBuffer = WritePlain(@, rp.item.pkt,
                                                   rp.item.lo, rp.item.hi)],
                pos |-> rp.pos, err |-> "", hdr |-> hdr]

\* ConnAead.UnPack: the ConnAead, the reader position, the error, and the
\* verified header <<h0, h1, payload_size>> (<<>> if none was verified)
UnPack(c, stream, pos) ==
    LET rh == ReadFull(stream, pos, 2 + Overhead) IN
    IF rh.err THEN [c |-> c, pos |-> rh.pos, err |-> "read header", hdr |-> <<>>]
    ELSE IF ~Opens(c, rh.item)
    THEN [c |-> c, pos |-> rh.pos, err |-> "decrypt header", hdr |-> <<>>]
    ELSE
      LET c1 == [c EXCEPT !.Dec = @ + 1]
          payload_size == DecodePayloadSize(rh.item.h0, rh.item.h1)
          hdr == <<rh.item.h0, rh.item.h1, payload_size>>
          rp == ReadFull(stream, rh.pos, payload_size + Overhead)
      IN  IF rp.err
          THEN [c |-> c1, pos |-> rp.pos, err |-> "read payload", hdr |-> hdr]
          ELSE IF ~Opens(c1, rp.item)
          THEN [c |-> c1, pos |-> rp.pos, err |-> "decrypt payload", hdr |-> hdr]
          ELSE [c |-> [c1 EXCEPT !.Dec = @ + 1,
                                 !.dataBuffer = WritePlain(@, rp.item.pkt,
                                                   rp.item.lo, rp.item.hi)],
                pos |-> rp.pos, err |-> "", hdr |-> hdr]

\* the reads of UnPack return (rather than block) once the bytes it asks for
\* have arrived or the stream has ended
UnPackReady(c, stream, pos) ==
    \/ sndClosed
    \/ /\ BytesFrom(stream, pos) >= 2 + Overhead
       /\ LET rh == ReadFull(stream, pos, 2 + Overhead)
          IN  Opens(c, rh.item) =>
                BytesFrom(stream, rh.pos) >=
                    DecodePayloadSize(rh.item.h0, rh.item.h1) + Overhead

(***************************************************************************)
(* ConnAead: the actions.                                                  *)
(***************************************************************************)
\* payload lengths handed to Pack: 0 .. 5 * 0x3FFF, around the chunk edges
PayloadLens ==
    {0, 1, PayloadSizeMask - 1, PayloadSizeMask, PayloadSizeMask + 1,
     2 * PayloadSizeMask, 2 * PayloadSizeMask + 1, 5 * PayloadSizeMask}

\* header bytes a peer holding the key may seal
PeerH0 == {0, 63, 64, 255}
PeerH1 == {0, 255}

Frames == Len(packets) + peerFrames

\* an item with one of its bytes altered: the same number of bytes, no longer
\* the salt or a message any key and nonce verify
Altered(it) == Item("junk", Nil, 0, 0, 0, 0, Size(it))

\* the stream as this.reader of the unpacking side delivers it
Wire ==
    [i \in 1..Len(snd.dataBuffer) |->
        IF i = tampered THEN Altered(snd.dataBuffer[i]) ELSE snd.dataBuffer[i]]

AeadInit ==
    /\ snd = ZeroConnAead
    /\ rcv = ZeroConnAead
    /\ rdPos = 1
    /\ sndClosed = FALSE
    /\ rcvErr = ""
    /\ packets = <<>>
    /\ peerFrames = 0
    /\ lastHeader = <<>>
    /\ tampered = 0
    /\ encInits = <<>>

SndInitEncrypt ==
    /\ OnlyAead
    /\ ~sndClosed
    /\ Len(encInits) < MaxInits
    /\ snd' = initEncrypt(snd, "conn")
    /\ encInits' = Append(encInits, Len(snd.dataBuffer) > 1)
    /\ UNCHANGED <<rcv, rdPos, sndClosed, rcvErr, packets, peerFrames, lastHeader,
                   tampered>>

SndPack(n) ==
    /\ OnlyAead
    /\ ~sndClosed
    /\ snd.CipherInst /\ snd.Enc # Nil
    /\ Frames < MaxPacks
    /\ snd' = Pack(snd, Len(packets) + 1, n)
    /\ packets' = Append(packets, n)
    /\ UNCHANGED <<rcv, rdPos, sndClosed, rcvErr, peerFrames, lastHeader,
                   tampered, encInits>>

\* a peer that holds the key but frames by hand: any two header bytes, then a
\* payload message of len bytes
PeerFrame(h0, h1, len) ==
    /\ OnlyAead
    /\ ~sndClosed
    /\ snd.CipherInst /\ snd.Enc # Nil
    /\ Frames < MaxPacks
    /\ snd' = [snd EXCEPT
                 !.dataBuffer = @ \o <<SealHeader(snd.Enc, <<h0, h1>>),
                                       SealPayload(snd.Enc + 1, 0, 0, len)>>,
                 !.Enc = @ + 2]
    /\ peerFrames' = peerFrames + 1
    /\ UNCHANGED <<rcv, rdPos, sndClosed, rcvErr, packets, lastHeader,
                   tampered, encInits>>

SndClose ==
    /\ OnlyAead
    /\ ~sndClosed
    /\ sndClosed' = TRUE
    /\ UNCHANGED <<snd, rcv, rdPos, rcvErr, packets, peerFrames, lastHeader,
                   tampered, encInits>>

\* one item of the stream not yet read (the salt, or the header or payload
\* ciphertext of the next chunk) has a byte altered in flight
TamperByte(i) ==
    /\ OnlyAead
    /\ tampered = 0
    /\ rcvErr = ""
    /\ i \in 1..Len(snd.dataBuffer)
    /\ rdPos <= i /\ i <= rdPos + 1
    /\ tampered' = i
    /\ UNCHANGED <<snd, rcv, rdPos, sndClosed, rcvErr, packets, peerFrames,
                   lastHeader, encInits>>

RcvInitDecrypt ==
    /\ OnlyAead
    /\ rcvErr = ""
    /\ sndClosed \/ BytesFrom(Wire, rdPos) >= IVSize
    /\ LET r == initDecrypt(rcv, "conn", Wire, rdPos)
       IN  /\ rcv' = r.c
           /\ rdPos' = r.pos
           /\ rcvErr' = r.err
    /\ UNCHANGED <<snd, sndClosed, packets, peerFrames, lastHeader,
                   tampered, encInits>>

RcvUnPack ==
    /\ OnlyAead
    /\ rcvErr = ""
    /\ rcv.CipherInst /\ rcv.Dec # Nil
    /\ UnPackReady(rcv, Wire, rdPos)
    /\ LET r == UnPack(rcv, Wire, rdPos)
       IN  /\ rcv' = r.c
           /\ rdPos' = r.pos
           /\ rcvErr' = r.err
           /\ lastHeader' = IF r.hdr # <<>> THEN r.hdr ELSE lastHeader
    /\ UNCHANGED <<snd, sndClosed, packets, peerFrames, tampered, encInits>>

AeadNext ==
    \/ SndInitEncrypt
    \/ \E n \in PayloadLens : SndPack(n)
    \/ \E h0 \in PeerH0, h1 \in PeerH1 :
         \E len \in {h0 * 256 + h1, (h0 * 256 + h1) % (PayloadSizeMask + 1)} :
           PeerFrame(h0, h1, len)
    \/ SndClose
    \/ \E i \in 1..Len(snd.dataBuffer) : TamperByte(i)
    \/ RcvInitDecrypt
    \/ RcvUnPack

(***************************************************************************)
(* ConnAead: the claims.                                                   *)
(***************************************************************************)
\* the concatenation of the payloads handed to Pack, in order
RECURSIVE PlainOf(_, _)
PlainOf(lens, k) ==
    IF k = 0 THEN <<>> ELSE WritePlain(PlainOf(lens, k - 1), k, 0, lens[k])

\* every frame of the stream came from Pack and UnPack has consumed them all
\* without an error
UnpackedAll ==
    /\ peerFrames = 0
    /\ rcv.CipherInst /\ rcv.Dec # Nil
    /\ rcvErr = ""
    /\ rdPos > Len(snd.dataBuffer)

\* C1: for every payload of 0 <= n <= 5*0x3FFF bytes, Pack followed by UnPack
\* calls on the produced stream accumulates exactly the original n bytes, in
\* the original order.
C1_PackUnPackRoundTrip ==
    UnpackedAll => rcv.dataBuffer = PlainOf(packets, Len(packets))

\* C2: the payload size UnPack derives from a verified header <<h0, h1>> is
\* (h0*256 + h1) mod 0x4000, and so never exceeds 0x3FFF.
C2_PayloadSizeMasked ==
    lastHeader # <<>> =>
        /\ lastHeader[3] = (lastHeader[1] * 256 + lastHeader[2]) % (PayloadSizeMask + 1)
        /\ lastHeader[3] <= PayloadSizeMask

\* the plaintext of the first k chunks of the stream the sender sealed
RECURSIVE VerifiedPlain(_, _)
VerifiedPlain(stream, k) ==
    IF k = 0 THEN <<>>
    ELSE WritePlain(VerifiedPlain(stream, k - 1), stream[2 * k + 1].pkt,
                    stream[2 * k + 1].lo, stream[2 * k + 1].hi)

DecryptErrors == {"decrypt header", "decrypt payload"}

\* C12: when AEAD verification of a chunk's header or payload fails, UnPack
\* returns an error and appends nothing to dataBuffer; dataBuffer holds only
\* the payloads of the chunks that verified completely.
C12_FailedVerificationYieldsNoPlaintext ==
    /\ [][(rcvErr = "" /\ rcvErr' \in DecryptErrors)
            => rcv'.dataBuffer = rcv.dataBuffer]_vars
    /\ [](rcv.Dec # Nil =>
            rcv.dataBuffer = VerifiedPlain(snd.dataBuffer, rcv.Dec \div 2))

\* a chunk was unpacked, then a chunk with an altered byte was refused
C12_Witness ==
    /\ rcvErr \in DecryptErrors
    /\ tampered # 0 /\ tampered = rdPos - 1
    /\ rcv.dataBuffer # <<>>

\* the items a Pack step appended to the output buffer
Emitted == SubSeq(snd'.dataBuffer, Len(snd.dataBuffer) + 1, Len(snd'.dataBuffer))

\* the payload length a header ciphertext declares: its two bytes, big-endian
Declared(it) == it.h0 * 256 + it.h1

RECURSIVE SumDeclared(_, _)
SumDeclared(out, k) ==
    IF k = 0 THEN 0 ELSE SumDeclared(out, k - 1) + Declared(out[2 * k - 1])

\* ceil(n / 0x3FFF)
CeilChunks(n) ==
    IF n % PayloadSizeMask = 0 THEN n \div PayloadSizeMask
    ELSE (n \div PayloadSizeMask) + 1

\* C13: Pack of an n-byte payload emits exactly ceil(n / 0x3FFF) chunks (none
\* for n = 0); every chunk declares a payload length between 1 and 0x3FFF,
\* the declared lengths sum to n, and each chunk occupies
\* 2 + tag + length + tag bytes of output.
C13_PackChunking ==
    [][packets' # packets =>
         LET n == packets'[Len(packets')]
             out == Emitted
             k == CeilChunks(n)
         IN  /\ Len(out) = 2 * k
             /\ \A j \in 1..k :
                   /\ out[2 * j - 1].kind = "hdr"
                   /\ out[2 * j].kind = "pay"
                   /\ Declared(out[2 * j - 1]) >= 1
                   /\ Declared(out[2 * j - 1]) <= PayloadSizeMask
                   /\ Size(out[2 * j - 1]) + Size(out[2 * j]) =
                          2 + Overhead + Declared(out[2 * j - 1]) + Overhead
             /\ SumDeclared(out, k) = n]_vars

\* a payload of 2 * 0x3FFF + 1 bytes was packed into three chunks
C13_Witness ==
    /\ Len(packets) = 1
    /\ packets[1] = 2 * PayloadSizeMask + 1
    /\ Len(snd.dataBuffer) = 1 + 2 * 3

\* the positions of the output buffer that hold a salt
SaltsIn(buf) == {i \in 1..Len(buf) : buf[i].kind = "iv"}

\* C16: over any sequence of initEncrypt and Pack calls that starts with
\* initEncrypt, the salt is generated once and is in the output buffer exactly
\* once, before every chunk ciphertext; a repeated initEncrypt neither
\* regenerates nor re-emits it (it changes nothing of the ConnAead).
C16_SaltEmittedOnce ==
    /\ [](Len(encInits) > 0 =>
            /\ snd.salts = 1
            /\ SaltsIn(snd.dataBuffer) = {1})
    /\ [][(Len(encInits) > 0 /\ Len(encInits') > Len(encInits))
            => snd' = snd]_vars

\* initEncrypt, Pack, initEncrypt again, Pack
C16_Witness ==
    /\ Len(encInits) = 2
    /\ encInits[2]
    /\ Len(packets) = 2
    /\ packets[1] > 0 /\ packets[2] > 0
    /\ Len(snd.dataBuffer) >= 5

\* C17: within one direction the AEAD operations run in send order header,
\* payload, header, payload, ...: two per chunk, each under the next nonce of
\* the direction, so no nonce seals two messages; in the output each header
\* ciphertext is immediately followed by its own payload ciphertext, and
\* UnPack opens them in that order.
C17_NonceOrder ==
    /\ snd.Enc # Nil =>
          /\ snd.Enc = Len(snd.dataBuffer) - 1
          /\ \A i \in 2..Len(snd.dataBuffer) :
                /\ snd.dataBuffer[i].nonce = i - 2
                /\ snd.dataBuffer[i].kind = IF i % 2 = 0 THEN "hdr" ELSE "pay"
          /\ peerFrames = 0 =>
                \A i \in 2..Len(snd.dataBuffer) :
                    snd.dataBuffer[i].kind = "hdr" =>
                        /\ i + 1 <= Len(snd.dataBuffer)
                        /\ Size(snd.dataBuffer[i + 1]) =
                               Declared(snd.dataBuffer[i]) + Overhead
    /\ (rcv.Dec # Nil /\ rcvErr = "") =>
          /\ rdPos = rcv.Dec + 2
          /\ rcv.Dec % 2 = 0

\* two chunks were sealed under nonces 0..3 and UnPack has opened both
C17_Witness ==
    /\ snd.Enc = 4
    /\ rcv.Dec = 4
    /\ rcvErr = ""
    /\ peerFrames = 0 /\ tampered = 0

(***************************************************************************)
(* One ConnAead for both directions of a connection: it packs what it      *)
(* sends and unpacks what its peer sent, with the connection as reader.    *)
(***************************************************************************)
\* what the peer sent: its salt, then two payloads packed
PeerStream ==
    Pack(Pack(initEncrypt(ZeroConnAead, "peer"), 1, 1),
         2, PayloadSizeMask + 1).dataBuffer

DuplexInit ==
    /\ duplex = ZeroConnAead
    /\ dxPos = 1
    /\ dxPacks = 0

DuplexInitEncrypt ==
    /\ OnlyDuplex
    /\ duplex' = initEncrypt(duplex, "conn")
    /\ UNCHANGED <<dxPos, dxPacks>>

DuplexInitDecrypt ==
    /\ OnlyDuplex
    /\ LET r == initDecrypt(duplex, "conn", PeerStream, dxPos)
       IN  /\ duplex' = r.c
           /\ dxPos' = r.pos
    /\ UNCHANGED dxPacks

DuplexPack(n) ==
    /\ OnlyDuplex
    /\ duplex.CipherInst /\ duplex.Enc # Nil
    /\ dxPacks < MaxPacks
    /\ duplex' = Pack(duplex, dxPacks + 1, n)
    /\ dxPacks' = dxPacks + 1
    /\ UNCHANGED dxPos

DuplexUnPack ==
    /\ OnlyDuplex
    /\ duplex.CipherInst /\ duplex.Dec # Nil
    /\ dxPos <= Len(PeerStream)
    /\ LET r == UnPack(duplex, PeerStream, dxPos)
       IN  /\ duplex' = r.c
           /\ dxPos' = r.pos
    /\ UNCHANGED dxPacks

DuplexNext ==
    \/ DuplexInitEncrypt
    \/ DuplexInitDecrypt
    \/ \E n \in PayloadLens : DuplexPack(n)
    \/ DuplexUnPack

\* buf holds all of old, in order, at its start
KeepsBytes(old, buf) ==
    Len(buf) >= Len(old) /\ SubSeq(buf, 1, Len(old)) = old

\* C26: on a ConnAead, initEncrypt after initDecrypt and initDecrypt after
\* initEncrypt leave the bytes already in dataBuffer, the reader and the
\* cipher state of the other direction as they were.
C26_InitLeavesOtherDirection ==
    /\ [][(duplex.Dec # Nil /\ duplex.Enc = Nil /\ duplex'.Enc # Nil)
            => /\ KeepsBytes(duplex.dataBuffer, duplex'.dataBuffer)
               /\ duplex'.reader = duplex.reader
               /\ duplex'.Dec = duplex.Dec
               /\ duplex'.keyOk = duplex.keyOk]_vars
    /\ [][(duplex.Enc # Nil /\ duplex.Dec = Nil /\ duplex'.Dec # Nil)
            => /\ KeepsBytes(duplex.dataBuffer, duplex'.dataBuffer)
               /\ duplex'.reader = duplex.reader
               /\ duplex'.Enc = duplex.Enc
               /\ duplex'.salts = duplex.salts]_vars


(***************************************************************************)
(* handleConnection.  One record per accepted connection:                  *)
(*   pc        where the handler goroutine is                              *)
(*   closed    the handler's local variable closed                         *)
(*   req       what getRequest returned                                    *)
(*   dial      what net.Dial returned                                      *)
(*   dials     number of net.Dial calls made                               *)
(*   client    the accepted client socket: "open" or "closed"              *)
(*   remote    the destination socket: "none", "open" or "closed"          *)
(*   closes    number of Close calls the handler made on the client socket *)
(*   dec, enc  the relay directions client->remote (spawned goroutine) and *)
(*             remote->client (inline): "idle", "running" or "done"        *)
(*   teardowns number of times the deferred cleanup ran                    *)
(***************************************************************************)
ConnIds == 1..MaxConns

NewHandler ==
    [pc |-> "idle", closed |-> FALSE, req |-> "", dial |-> "", dials |-> 0,
     client |-> "open", remote |-> "none", closes |-> 0,
     dec |-> "idle", enc |-> "idle", teardowns |-> 0,
     cnt |-> 0, enters |-> 0]

\* what getRequest returns: an error (read error or expired deadline, address
\* type not 1, 3 or 4), a host holding a NUL, or a clean host
RequestErrors == {"read error", "addr type not supported"}
RequestResults == RequestErrors \cup {"nul host", "host"}

\* what net.Dial returns
DialErrors == {"EMFILE", "ENFILE", "refused"}
DialResults == DialErrors \cup {"ok"}

\* connCnt++ and connCnt--, lines 122 and 137, are a load of the global into
\* the goroutine and a store of the changed value, with no synchronization;
\* cnt is the value loaded, 0 again once it has been stored
Load(h, pc, n) == [h EXCEPT !.cnt = n, !.pc = pc]

\* handleConnection, lines 122-141: connCnt++, closed := false, the deferred
\* cleanup is registered
Enter(h) ==
    [h EXCEPT !.pc = "getRequest", !.closed = FALSE, !.enters = @ + 1,
              !.cnt = 0]

\* lines 144-152: getRequest failed
OnRequestError(h, e) == [h EXCEPT !.req = e, !.closed = TRUE, !.pc = "cleanup"]

\* lines 143, 154-158: getRequest returned a host; one holding a NUL is refused
OnRequest(h, host) ==
    IF host = "nul host"
    THEN [h EXCEPT !.req = host, !.closed = TRUE, !.pc = "cleanup"]
    ELSE [h EXCEPT !.req = host, !.pc = "dial"]

\* lines 160-176: net.Dial failed; the handler logs and returns
OnDialError_SetsClosed(h, e) ==
    [h EXCEPT !.dial = e, !.dials = @ + 1, !.closed = TRUE, !.pc = "cleanup"]

OnDialError(h, e) == [h EXCEPT !.dial = e, !.dials = @ + 1, !.pc = "cleanup"]

\* lines 160, 177-184: the dial succeeded; the second deferred function is
\* registered, the decrypting direction is spawned and the encrypting
\* direction runs inline
StartRelay_NoDecrypt(h) ==
    [h EXCEPT !.dial = "ok", !.dials = @ + 1, !.remote = "open",
              !.enc = "running", !.pc = "relay"]

StartRelay(h) ==
    [h EXCEPT !.dial = "ok", !.dials = @ + 1, !.remote = "open",
              !.dec = "running", !.enc = "running", !.pc = "relay"]

\* lines 184-186: the inline direction returned; closed = true; return
AfterRelay(h) == [h EXCEPT !.closed = TRUE, !.pc = "cleanupRemote"]

\* lines 177-181: the deferred function registered after the dial
DeferRemote(h) ==
    [h EXCEPT !.remote = IF ~h.closed THEN "closed" ELSE @, !.pc = "cleanup"]

\* lines 135-141: the deferred cleanup: connCnt--, conn.Close() unless closed
DeferCleanup(h) ==
    [h EXCEPT !.client = IF ~h.closed THEN "closed" ELSE @,
              !.closes = IF ~h.closed THEN @ + 1 ELSE @,
              !.teardowns = @ + 1,
              !.cnt = 0,
              !.pc = "done"]

\* PipeDecrypt / PipeEncrypt: a direction that ends closes both sockets
PipeEnd(h, d) ==
    [h EXCEPT ![d] = "done", !.client = "closed", !.remote = "closed"]

ConnInitState ==
    /\ handlers = [c \in ConnIds |-> NewHandler]
    /\ connCnt = 0

\* run, line 355: go handleConnection(...)
Spawn(c) ==
    /\ OnlyConn
    /\ handlers[c].pc = "idle"
    /\ handlers' = [handlers EXCEPT ![c].pc = "start"]
    /\ UNCHANGED connCnt

\* line 122, connCnt++: the load
HandlerEnterLoad(c) ==
    /\ OnlyConn
    /\ handlers[c].pc = "start"
    /\ handlers' = [handlers EXCEPT ![c] = Load(@, "inc", connCnt)]
    /\ UNCHANGED connCnt

\* line 122, connCnt++: the store; then lines 123-141
HandlerEnter(c) ==
    /\ OnlyConn
    /\ handlers[c].pc = "inc"
    /\ handlers' = [handlers EXCEPT ![c] = Enter(@)]
    /\ connCnt' = handlers[c].cnt + 1

HandlerGetRequest(c, r) ==
    /\ OnlyConn
    /\ handlers[c].pc = "getRequest"
    /\ handlers' = [handlers EXCEPT ![c] =
                      IF r \in RequestErrors THEN OnRequestError(@, r)
                      ELSE OnRequest(@, r)]
    /\ UNCHANGED connCnt

HandlerDial(c, r) ==
    /\ OnlyConn
    /\ handlers[c].pc = "dial"
    /\ handlers' = [handlers EXCEPT ![c] =
                      IF r \in DialErrors THEN OnDialError(@, r)
                      ELSE StartRelay(@)]
    /\ UNCHANGED connCnt

\* a direction ends: its peer ended the stream or a read or write failed
\* (which a read does at once when its socket has been closed)
RelayEnd(c, d) ==
    /\ OnlyConn
    /\ handlers[c][d] = "running"
    /\ handlers' = [handlers EXCEPT ![c] = PipeEnd(@, d)]
    /\ UNCHANGED connCnt

\* the same, forced: the sockets of the direction are closed
RelayEndOnClosed(c, d) ==
    /\ handlers[c].client = "closed" \/ handlers[c].remote = "closed"
    /\ RelayEnd(c, d)

HandlerAfterRelay(c) ==
    /\ OnlyConn
    /\ handlers[c].pc = "relay"
    /\ handlers[c].enc = "done"
    /\ handlers' = [handlers EXCEPT ![c] = AfterRelay(@)]
    /\ UNCHANGED connCnt

HandlerDeferRemote(c) ==
    /\ OnlyConn
    /\ handlers[c].pc = "cleanupRemote"
    /\ handlers' = [handlers EXCEPT ![c] = DeferRemote(@)]
    /\ UNCHANGED connCnt

\* line 137, connCnt--: the load
HandlerDeferLoad(c) ==
    /\ OnlyConn
    /\ handlers[c].pc = "cleanup"
    /\ handlers' = [handlers EXCEPT ![c] = Load(@, "dec", connCnt)]
    /\ UNCHANGED connCnt

\* line 137, connCnt--: the store; then lines 138-140
HandlerDeferCleanup(c) ==
    /\ OnlyConn
    /\ handlers[c].pc = "dec"
    /\ handlers' = [handlers EXCEPT ![c] = DeferCleanup(@)]
    /\ connCnt' = handlers[c].cnt - 1

ConnNext ==
    \E c \in ConnIds :
        \/ Spawn(c)
        \/ HandlerEnterLoad(c)
        \/ HandlerEnter(c)
        \/ \E r \in RequestResults : HandlerGetRequest(c, r)
        \/ \E r \in DialResults : HandlerDial(c, r)
        \/ \E d \in {"dec", "enc"} : RelayEnd(c, d)
        \/ HandlerAfterRelay(c)
        \/ HandlerDeferRemote(c)
        \/ HandlerDeferLoad(c)
        \/ HandlerDeferCleanup(c)

(***************************************************************************)
(* handleConnection: the claims.                                           *)
(***************************************************************************)
ParseFailed(h) == h.req \in RequestErrors \cup {"nul host"}

\* C3: when request parsing fails or the host holds a NUL, the client
\* connection is closed by the time the handler returns and no dial was ever
\* attempted for the connection.
C3_ParseFailureClosesClient ==
    \A c \in ConnIds :
        (handlers[c].pc = "done" /\ ParseFailed(handlers[c]))
            => (handlers[c].client = "closed" /\ handlers[c].dials = 0)

\* C4: when the dial fails (EMFILE / ENFILE included), the client connection
\* is closed exactly once when the handler returns, no relay task is spawned,
\* and the handler terminates normally, leaving no socket open.
C4_DialFailureClosesClientOnce ==
    \A c \in ConnIds :
        (handlers[c].pc = "done" /\ handlers[c].dial \in DialErrors)
            => /\ handlers[c].client = "closed"
               /\ handlers[c].closes = 1
               /\ handlers[c].teardowns = 1
               /\ handlers[c].dec = "idle" /\ handlers[c].enc = "idle"
               /\ handlers[c].remote = "none"

C4_Witness ==
    \E c \in ConnIds :
        /\ handlers[c].pc = "done"
        /\ handlers[c].dial = "EMFILE"
        /\ handlers[c].client = "closed"

\* C5: once a connection relays, as soon as either direction has ended both
\* sockets eventually are closed, both relay tasks have terminated and the
\* handler's teardown has run exactly once.
RelayEnded(c) ==
    /\ handlers[c].dial = "ok"
    /\ handlers[c].dec = "done" \/ handlers[c].enc = "done"

TornDown(c) ==
    /\ handlers[c].client = "closed"
    /\ handlers[c].remote = "closed"
    /\ handlers[c].dec = "done"
    /\ handlers[c].enc = "done"
    /\ handlers[c].pc = "done"
    /\ handlers[c].teardowns = 1

\* A relay that has ended stays ended (first conjunct), so "from some point
\* on every ended relay is torn down" says that an ended relay leads to its
\* teardown.
C5_RelayEndTearsDown ==
    /\ [][\A c \in ConnIds : RelayEnded(c) => RelayEnded(c)']_vars
    /\ <>[](\A c \in ConnIds : RelayEnded(c) => TornDown(c))
    /\ [](\A c \in ConnIds : handlers[c].teardowns <= 1)

C5_Witness ==
    \E c \in ConnIds : RelayEnded(c) /\ TornDown(c)

Ports == {8388, 8389}
Passwords == {"a", "b"}

NilConfig == [p \in Ports |-> ""]
Snapshot(pa, pb) == [p \in Ports |-> IF p = 8388 THEN pa ELSE pb]

\* the snapshots the configuration file holds at startup and at the reloads
Configs ==
    {Snapshot("a", ""), Snapshot("b", ""), Snapshot("", "a"), Snapshot("a", "a")}
PortsOf(cfg) == {p \in Ports : cfg[p] # ""}

\* main, lines 441-442: the method main takes when none is given
DefaultMethod == "aes-256-cfb"

\* the methods a configuration file names: two the cipher provider
\* recognizes and one it does not
Methods == {"aes-256-cfb", "chacha20", "none"}

\* ss.CheckCipherMethod and ss.NewCipher fail for an algorithm name that is
\* not recognized
Supported(m) == m \in {"aes-256-cfb", "chacha20"}

\* the result of ss.ParseConfig: an error, or a snapshot and its method
ParseError == [err |-> TRUE, cfg |-> NilConfig, method |-> ""]
ParseResults ==
    {[err |-> FALSE, cfg |-> c, method |-> DefaultMethod] : c \in Configs}
        \cup {ParseError}

\* no entry in passwdManager.portListener
NoRecord == [password |-> "", listener |-> 0]

\* the tasks that use passwdManager: the run goroutines and the goroutine of
\* waitSignal; NoTask when the mutex is unlocked
NoTask == [task |-> "", id |-> 0]
RunTask(l) == [task |-> "run", id |-> l]
ReloadTask == [task |-> "reload", id |-> 0]

\* pm.Lock() returns once no task holds the mutex
CanLock(m) == m = NoTask

\* add, get and del without their pm.Unlock()
pmUnlock_Missing(m) == m

\* pm.Unlock(), the last statement of add and get and of del
pmUnlock(m) == NoTask

\* PasswdManager.get, under the lock
pmGet(pl, port) == pl[port]

\* PasswdManager.add, under the lock
pmAdd(pl, port, password, ln) ==
    [pl EXCEPT ![port] = [password |-> password, listener |-> ln]]

\* PasswdManager.del, lines 244-249: delete(pm.portListener, port), under the lock
pmDelete(pl, port) == [pl EXCEPT ![port] = NoRecord]

\* net.Listener.Close: closing a closed listener changes nothing
CloseListener(ls, ln) == [ls EXCEPT ![ln].open = FALSE]

\* the process ends: the kernel closes every socket
CloseAll(ls) == [i \in 1..Len(ls) |-> [ls[i] EXCEPT !.open = FALSE]]

OpenOn(ls, port) == {i \in 1..Len(ls) : ls[i].port = port /\ ls[i].open}

\* net.Listen("tcp", ":"+port) succeeds unless a listener of the process
\* holds the port
CanListen(ls, port) == OpenOn(ls, port) = {}

\* the process ends: every connection is cut, whatever its relay was doing
KillAll(acc) ==
    [i \in 1..Len(acc) |->
        IF acc[i].relay = "running"
        THEN [acc[i] EXCEPT !.relay = "killed", !.client = "closed",
                            !.remote = "closed"]
        ELSE acc[i]]

\* the cipher instances created so far: the templates of the loops and the
\* instances handed to handlers
CipherCount(ls, acc) ==
    Cardinality({l \in 1..Len(ls) : ls[l].cipher # 0})
        + Cardinality({i \in 1..Len(acc) : acc[i].cipher # 0})

\* ss.NewCipher(config.Method, password): a new instance, the loop's template
NewCipher(ls, acc) == CipherCount(ls, acc) + 1

\* ss.CopyCipher(cipher): a new instance with the key of cipher
CopyCipher(cipher, ls, acc) == CipherCount(ls, acc) + 1

\* run, line 355, handing the template itself to the handler
ConnCipher_Template(cipher, ls, acc) == cipher

\* run, line 355: the cipher of ss.NewConn(conn, ss.CopyCipher(cipher))
ConnCipher(cipher, ls, acc) == CopyCipher(cipher, ls, acc)

\* run, line 355: go handleConnection(ss.NewConn(conn, ...)); the handler
\* dials and relays
NewAccepted(ln, cipher) ==
    [ln |-> ln, cipher |-> cipher, client |-> "open", remote |-> "open",
     relay |-> "running"]

\* run, lines 346-352, with the connection handed to a handler all the same
Rejected_Handled(ln) ==
    [ln |-> ln, cipher |-> 0, client |-> "open", remote |-> "open",
     relay |-> "running"]

\* run, lines 346-352: ss.NewCipher failed; conn.Close() and continue, no
\* handler is started
Rejected(ln) ==
    [ln |-> ln, cipher |-> 0, client |-> "closed", remote |-> "none",
     relay |-> "none"]

\* go run(port, password); snapshot is the Method of the configuration
\* snapshot port and password come from, the global config of that moment;
\* built is the method the cipher template was built with, "" before that
NewLoop(port, password, origin, m) ==
    [port |-> port, password |-> password, origin |-> origin,
     pc |-> "listen", ln |-> 0, cipher |-> 0, snapshot |-> m, built |-> ""]

RECURSIVE StartLoops(_, _, _)
StartLoops(cfg, ports, m) ==
    IF ports = {} THEN <<>>
    ELSE LET p == CHOOSE q \in ports : \A r \in ports : q <= r
         IN  <<NewLoop(p, cfg[p], "startup", m)>>
                 \o StartLoops(cfg, ports \ {p}, m)

\* updatePortPasswd without the comparison of the passwords
UpdateKind_IgnoresPassword(pl, password) ==
    IF pl = NoRecord THEN "new port" ELSE "changed"

\* updatePortPasswd, lines 257-266: what it does with the record get returned
UpdateKind(pl, password) ==
    IF pl = NoRecord THEN "new port"
    ELSE IF pl.password = password THEN "unchanged"
    ELSE "changed"

IdleReload ==
    [pc |-> "idle", parseErr |-> FALSE, newconfig |-> NilConfig,
     newmethod |-> "", todo |-> {}, old |-> {}, port |-> 0, password |-> "", pl |-> NoRecord,
     dropped |-> {}, added |-> {}]

\* updatePasswd, lines 282-294: after ss.ParseConfig returned; the reload
\* goroutine and the global config
AfterParse_NoErrorCheck(r, cfg, m) ==
    [reload |-> [r EXCEPT !.pc = "range",
                          !.todo = PortsOf(r.newconfig),
                          !.old = PortsOf(cfg),
                          !.dropped = PortsOf(cfg) \ PortsOf(r.newconfig),
                          !.added = PortsOf(r.newconfig) \ PortsOf(cfg)],
     config |-> r.newconfig, method |-> r.newmethod]

AfterParse(r, cfg, m) ==
    IF r.parseErr THEN [reload |-> IdleReload, config |-> cfg, method |-> m]
    ELSE [reload |-> [r EXCEPT !.pc = "range",
                               !.todo = PortsOf(r.newconfig),
                               !.old = PortsOf(cfg),
                               !.dropped = PortsOf(cfg) \ PortsOf(r.newconfig),
                               !.added = PortsOf(r.newconfig) \ PortsOf(cfg)],
          config |-> r.newconfig, method |-> r.newmethod]

NoCall ==
    [port |-> 0, password |-> "", repeat |-> FALSE, kind |-> "",
     closeCalls |-> 0, spawned |-> 0]

MgrInit ==
    /\ mainPc = "start"
    /\ config = NilConfig
    /\ method = ""
    /\ portListener = [p \in Ports |-> NoRecord]
    /\ listeners = <<>>
    /\ loops = <<>>
    /\ reload = IdleReload
    /\ exited = FALSE
    /\ mu = NoTask
    /\ accepted = <<>>
    /\ hist = [reloads |-> 0,
               closed |-> {},
               lastPw |-> [p \in Ports |-> ""],
               changed |-> [p \in Ports |-> FALSE],
               lastCall |-> NoCall,
               parseFailed |-> 0,
               done |-> 0, dropped |-> {}, added |-> {}]

\* main, lines 433-466: the configuration is read, one run goroutine is
\* started per port, main waits for signals; m is the method after line 442
\* (main exits at line 451, before any of this, if m is not supported)
MainStart(cfg, m) ==
    /\ OnlyMgr
    /\ UNCHANGED accepted
    /\ UNCHANGED mu
    /\ mainPc = "start"
    /\ mainPc' = "waitSignal"
    /\ Supported(m)
    /\ config' = cfg
    /\ method' = m
    /\ loops' = StartLoops(cfg, PortsOf(cfg), m)
    /\ UNCHANGED <<portListener, listeners, reload, exited, hist>>

\* run, lines 324-331: net.Listen; on an error os.Exit(1)
LoopListen(l) ==
    /\ OnlyMgr
    /\ UNCHANGED mu
    /\ ~exited
    /\ loops[l].pc = "listen"
    /\ IF CanListen(listeners, loops[l].port)
       THEN /\ listeners' = Append(listeners, [port |-> loops[l].port, open |-> TRUE])
            /\ loops' = [loops EXCEPT ![l].pc = "add", ![l].ln = Len(listeners) + 1]
            /\ UNCHANGED exited
            /\ UNCHANGED accepted
       ELSE /\ listeners' = CloseAll(listeners)
            /\ loops' = [loops EXCEPT ![l].pc = "bind failed"]
            /\ exited' = TRUE
            /\ accepted' = KillAll(accepted)
    /\ UNCHANGED <<mainPc, config, method, portListener, reload, hist>>

\* run, line 332, and add, line 206: passwdManager.add(port, password, ln)
\* takes the lock
LoopAddLock(l) ==
    /\ OnlyMgr
    /\ UNCHANGED accepted
    /\ ~exited
    /\ loops[l].pc = "add"
    /\ CanLock(mu)
    /\ mu' = RunTask(l)
    /\ loops' = [loops EXCEPT ![l].pc = "add locked"]
    /\ UNCHANGED <<mainPc, config, method, portListener, listeners, reload, exited, hist>>

\* add, lines 207-208: the record is written and the lock released
LoopAdd(l) ==
    /\ OnlyMgr
    /\ UNCHANGED accepted
    /\ ~exited
    /\ loops[l].pc = "add locked"
    /\ portListener' = pmAdd(portListener, loops[l].port, loops[l].password, loops[l].ln)
    /\ mu' = pmUnlock(mu)
    /\ loops' = [loops EXCEPT ![l].pc = "accept"]
    /\ UNCHANGED <<mainPc, config, method, listeners, reload, exited, hist>>

\* run, lines 336-341: Accept on a closed listener fails and run returns
LoopAcceptError(l) ==
    /\ OnlyMgr
    /\ UNCHANGED accepted
    /\ UNCHANGED mu
    /\ ~exited
    /\ loops[l].pc = "accept"
    /\ ~listeners[loops[l].ln].open
    /\ loops' = [loops EXCEPT ![l].pc = "returned"]
    /\ UNCHANGED <<mainPc, config, method, portListener, listeners, reload, exited, hist>>

\* run, lines 337, 343-355: Accept returns a connection; the cipher template
\* is created at the first one with the Method of the global config (the
\* connection is closed and the loop continues if that fails); a handler is
\* started with a cipher for it
LoopAccept(l) ==
    /\ OnlyMgr
    /\ ~exited
    /\ loops[l].pc = "accept"
    /\ listeners[loops[l].ln].open
    /\ Len(accepted) < MaxAccepts
    /\ IF loops[l].cipher = 0 /\ ~Supported(method)
       THEN /\ accepted' = Append(accepted, Rejected(loops[l].ln))
            /\ UNCHANGED loops
       ELSE LET ls == IF loops[l].cipher # 0 THEN loops
                      ELSE [loops EXCEPT ![l].cipher = NewCipher(loops, accepted),
                                         ![l].built = method]
            IN  /\ loops' = ls
                /\ accepted' =
                      Append(accepted,
                             NewAccepted(loops[l].ln,
                                         ConnCipher(ls[l].cipher, ls, accepted)))
    /\ UNCHANGED <<mainPc, config, method, portListener, listeners, reload, exited, mu, hist>>

\* a relay ends on its own: a peer closed, a timeout or an error
ConnEnd(i) ==
    /\ OnlyMgr
    /\ ~exited
    /\ accepted[i].relay = "running"
    /\ accepted' = [accepted EXCEPT ![i].relay = "ended", ![i].client = "closed",
                                    ![i].remote = "closed"]
    /\ UNCHANGED <<mainPc, config, method, portListener, listeners, loops, reload, exited,
                   mu, hist>>

\* waitSignal, lines 312-314, and updatePasswd, line 281: SIGHUP arrives and
\* the configuration file is parsed
ReloadSignal(result) ==
    /\ OnlyMgr
    /\ UNCHANGED accepted
    /\ UNCHANGED mu
    /\ ~exited
    /\ mainPc = "waitSignal"
    /\ reload.pc = "idle"
    /\ hist.reloads < MaxReloads
    /\ reload' = [IdleReload EXCEPT
                    !.pc = "parsed",
                    !.parseErr = result.err,
                    !.newconfig = result.cfg,
                    !.newmethod = result.method]
    /\ hist' = [hist EXCEPT !.reloads = @ + 1]
    /\ UNCHANGED <<mainPc, config, method, portListener, listeners, loops, exited>>

\* updatePasswd, lines 282-294
ReloadAfterParse ==
    /\ OnlyMgr
    /\ UNCHANGED accepted
    /\ UNCHANGED mu
    /\ ~exited
    /\ reload.pc = "parsed"
    /\ LET r == AfterParse(reload, config, method)
       IN  /\ reload' = r.reload
           /\ config' = r.config
           /\ method' = r.method
    /\ hist' = [hist EXCEPT !.parseFailed = IF reload.parseErr THEN 1 ELSE @]
    /\ UNCHANGED <<mainPc, portListener, listeners, loops, exited>>

\* updatePasswd, lines 295-296, updatePortPasswd, line 257, and get, line
\* 218: the range yields a port of the new snapshot (in no fixed order);
\* pm.get(port) takes the lock
UpdGetLock(p) ==
    /\ OnlyMgr
    /\ UNCHANGED accepted
    /\ ~exited
    /\ reload.pc = "range"
    /\ p \in reload.todo
    /\ CanLock(mu)
    /\ mu' = ReloadTask
    /\ reload' = [reload EXCEPT !.pc = "get", !.port = p,
                                !.password = config[p], !.pl = NoRecord]
    /\ UNCHANGED <<mainPc, config, method, portListener, listeners, loops, exited, hist>>

\* get, lines 219-221: the record is read and the lock released
UpdGet ==
    /\ OnlyMgr
    /\ UNCHANGED accepted
    /\ ~exited
    /\ reload.pc = "get"
    /\ reload' = [reload EXCEPT !.pc = "update",
                                !.pl = pmGet(portListener, reload.port)]
    /\ mu' = pmUnlock(mu)
    /\ UNCHANGED <<mainPc, config, method, portListener, listeners, loops, exited, hist>>

\* updatePortPasswd, lines 258-269, and updatePasswd, lines 297-299
UpdApply ==
    /\ OnlyMgr
    /\ UNCHANGED accepted
    /\ UNCHANGED mu
    /\ ~exited
    /\ reload.pc = "update"
    /\ LET kind == UpdateKind(reload.pl, reload.password)
           p == reload.port
       IN  /\ kind # "unchanged" => Len(loops) < MaxLoops
           /\ listeners' = IF kind = "changed"
                           THEN CloseListener(listeners, reload.pl.listener)
                           ELSE listeners
           /\ loops' = IF kind = "unchanged" THEN loops
                       ELSE Append(loops, NewLoop(p, reload.password, "reload", method))
           /\ hist' = [hist EXCEPT
                         !.closed = IF kind = "changed"
                                    THEN @ \cup {reload.pl.listener} ELSE @,
                         !.lastPw[p] = reload.password,
                         !.changed[p] = (kind = "changed"),
                         !.lastCall =
                             [port |-> p, password |-> reload.password,
                              repeat |-> (hist.lastPw[p] = reload.password),
                              kind |-> kind,
                              closeCalls |-> IF kind = "changed" THEN 1 ELSE 0,
                              spawned |-> IF kind = "unchanged" THEN 0 ELSE 1]]
           /\ reload' = [reload EXCEPT !.pc = "range",
                                       !.todo = @ \ {p}, !.old = @ \ {p}]
    /\ UNCHANGED <<mainPc, config, method, portListener, exited>>

\* updatePasswd, lines 302-304, del, line 232, and get, line 218: a port
\* left in the old snapshot; pm.get(port) takes the lock
DelGetLock(p) ==
    /\ OnlyMgr
    /\ UNCHANGED accepted
    /\ ~exited
    /\ reload.pc = "range"
    /\ reload.todo = {}
    /\ p \in reload.old
    /\ CanLock(mu)
    /\ mu' = ReloadTask
    /\ reload' = [reload EXCEPT !.pc = "del get", !.port = p, !.pl = NoRecord]
    /\ UNCHANGED <<mainPc, config, method, portListener, listeners, loops, exited, hist>>

\* get, lines 219-221, and del, lines 233-235: the record is read and the lock
\* released; del returns if there is no record
DelGet ==
    /\ OnlyMgr
    /\ UNCHANGED accepted
    /\ ~exited
    /\ reload.pc = "del get"
    /\ LET pl == pmGet(portListener, reload.port)
           p == reload.port
       IN  /\ reload' = IF pl = NoRecord
                        THEN [reload EXCEPT !.pc = "range", !.old = @ \ {p}]
                        ELSE [reload EXCEPT !.pc = "del close", !.pl = pl]
           /\ hist' = [hist EXCEPT !.lastPw[p] = "", !.changed[p] = FALSE]
    /\ mu' = pmUnlock(mu)
    /\ UNCHANGED <<mainPc, config, method, portListener, listeners, loops, exited>>

\* del, line 243: pl.listener.Close()
DelClose ==
    /\ OnlyMgr
    /\ UNCHANGED accepted
    /\ UNCHANGED mu
    /\ ~exited
    /\ reload.pc = "del close"
    /\ listeners' = CloseListener(listeners, reload.pl.listener)
    /\ reload' = [reload EXCEPT !.pc = "del lock"]
    /\ hist' = [hist EXCEPT !.closed = @ \cup {reload.pl.listener}]
    /\ UNCHANGED <<mainPc, config, method, portListener, loops, exited>>

\* del, line 244: pm.Lock()
DelDeleteLock ==
    /\ OnlyMgr
    /\ UNCHANGED accepted
    /\ ~exited
    /\ reload.pc = "del lock"
    /\ CanLock(mu)
    /\ mu' = ReloadTask
    /\ reload' = [reload EXCEPT !.pc = "del delete"]
    /\ UNCHANGED <<mainPc, config, method, portListener, listeners, loops, exited, hist>>

\* del, lines 245-249: the record is deleted and the lock released
DelDelete ==
    /\ OnlyMgr
    /\ UNCHANGED accepted
    /\ ~exited
    /\ reload.pc = "del delete"
    /\ portListener' = pmDelete(portListener, reload.port)
    /\ mu' = pmUnlock(mu)
    /\ reload' = [reload EXCEPT !.pc = "range", !.old = @ \ {reload.port}]
    /\ UNCHANGED <<mainPc, config, method, listeners, loops, exited, hist>>

\* updatePasswd, line 306: both ranges are done
ReloadReturn ==
    /\ OnlyMgr
    /\ UNCHANGED accepted
    /\ UNCHANGED mu
    /\ ~exited
    /\ reload.pc = "range"
    /\ reload.todo = {} /\ reload.old = {}
    /\ reload' = IdleReload
    /\ hist' = [hist EXCEPT !.done = @ + 1,
                            !.dropped = reload.dropped, !.added = reload.added]
    /\ UNCHANGED <<mainPc, config, method, portListener, listeners, loops, exited>>

MgrNext ==
    \/ \E cfg \in Configs : MainStart(cfg, DefaultMethod)
    \/ \E l \in 1..Len(loops) : LoopListen(l)
    \/ \E l \in 1..Len(loops) : LoopAddLock(l)
    \/ \E l \in 1..Len(loops) : LoopAdd(l)
    \/ \E l \in 1..Len(loops) : LoopAcceptError(l)
    \/ \E result \in ParseResults : ReloadSignal(result)
    \/ ReloadAfterParse
    \/ \E p \in Ports : UpdGetLock(p)
    \/ UpdGet
    \/ UpdApply
    \/ \E p \in Ports : DelGetLock(p)
    \/ DelGet
    \/ DelClose
    \/ DelDeleteLock
    \/ DelDelete
    \/ ReloadReturn

\* the server with connections: one port at startup, then reloads that change
\* its password or replace it by another port
ServeStart == Snapshot("a", "")
ServeResults ==
    {[err |-> FALSE, cfg |-> c, method |-> DefaultMethod] :
        c \in {Snapshot("b", ""), Snapshot("", "a")}}

ServeNext ==
    \/ MainStart(ServeStart, DefaultMethod)
    \/ \E l \in 1..Len(loops) : LoopListen(l)
    \/ \E l \in 1..Len(loops) : LoopAddLock(l)
    \/ \E l \in 1..Len(loops) : LoopAdd(l)
    \/ \E l \in 1..Len(loops) : LoopAccept(l)
    \/ \E l \in 1..Len(loops) : LoopAcceptError(l)
    \/ \E i \in 1..Len(accepted) : ConnEnd(i)
    \/ \E result \in ServeResults : ReloadSignal(result)
    \/ ReloadAfterParse
    \/ \E p \in Ports : UpdGetLock(p)
    \/ UpdGet
    \/ UpdApply
    \/ \E p \in Ports : DelGetLock(p)
    \/ DelGet
    \/ DelClose
    \/ DelDeleteLock
    \/ DelDelete
    \/ ReloadReturn

\* the server under reloads that change the method: two ports at startup,
\* then files that keep both passwords and name another method, recognized
\* or not (updatePasswd does not check the method); no listener is closed
\* and no port dropped by such a reload
MethodStart == Snapshot("a", "a")
MethodResults ==
    {[err |-> FALSE, cfg |-> MethodStart, method |-> m] :
        m \in Methods \ {DefaultMethod}}

MethodNext ==
    \/ MainStart(MethodStart, DefaultMethod)
    \/ \E l \in 1..Len(loops) : LoopListen(l)
    \/ \E l \in 1..Len(loops) : LoopAddLock(l)
    \/ \E l \in 1..Len(loops) : LoopAdd(l)
    \/ \E l \in 1..Len(loops) : LoopAccept(l)
    \/ \E i \in 1..Len(accepted) : ConnEnd(i)
    \/ \E result \in MethodResults : ReloadSignal(result)
    \/ ReloadAfterParse
    \/ \E p \in Ports : UpdGetLock(p)
    \/ UpdGet
    \/ UpdApply
    \/ ReloadReturn


(***************************************************************************)
(* PasswdManager, updatePasswd, run: the claims.                           *)
(***************************************************************************)
Registered == {p \in Ports : portListener[p] # NoRecord}

\* no reload is in progress and every server loop started is past its startup
Quiescent ==
    /\ mainPc = "waitSignal"
    /\ reload.pc = "idle"
    /\ \A l \in 1..Len(loops) : loops[l].pc \notin {"listen", "add", "add locked"}

\* C6: when updatePortPasswd(port, pw) is invoked twice in succession, the
\* second invocation closes no socket and starts no server loop, wherever the
\* loop started by the first is in its startup.
C6_RepeatedUpdateIsNoOp ==
    hist.lastCall.repeat =>
        (hist.lastCall.closeCalls = 0 /\ hist.lastCall.spawned = 0)

\* C7: updatePortPasswd(port, pw') on a registered port whose recorded
\* password differs closes exactly one socket and starts exactly one server
\* loop, and eventually exactly one listener is bound on the port and the
\* registry record of the port carries pw' and that listener.
C7_PasswordChangeRestartsListener ==
    /\ hist.lastCall.kind = "changed" =>
           (hist.lastCall.closeCalls = 1 /\ hist.lastCall.spawned = 1)
    /\ \A p \in Ports :
           (hist.changed[p] /\ Quiescent) =>
               /\ Cardinality(OpenOn(listeners, p)) = 1
               /\ portListener[p].password = hist.lastPw[p]
               /\ portListener[p].listener \in OpenOn(listeners, p)

\* C8: after a reload that drops port A and adds port B has returned and every
\* server loop has run its startup, A has no open listener and no record, B
\* has an open registered listener, and the registered ports are exactly the
\* ports of the new snapshot.
C8_ReloadDropsAndAdds ==
    (hist.done > 0 /\ hist.dropped # {} /\ hist.added # {} /\ Quiescent) =>
        /\ \A a \in hist.dropped :
               OpenOn(listeners, a) = {} /\ portListener[a] = NoRecord
        /\ \A b \in hist.added :
               /\ portListener[b] # NoRecord
               /\ portListener[b].listener \in OpenOn(listeners, b)
        /\ Registered = PortsOf(config)

\* C9: a reload whose configuration cannot be parsed leaves the snapshot, the
\* registry, every listening socket and the server loops as they are: no
\* step updatePasswd takes for it changes any of them.
C9_FailedParseChangesNothing ==
    [][((reload.parseErr \/ reload'.parseErr) /\ reload' # reload)
          => UNCHANGED <<config, method, portListener, listeners, loops, exited>>]_vars

C9_Witness ==
    /\ hist.parseFailed > 0
    /\ reload.pc = "idle"
    /\ \E p \in Registered : portListener[p].listener \in OpenOn(listeners, p)

\* C10: a bind failure of a server loop started by a reload is reported and
\* ignored: the process keeps running.
C10_ReloadBindFailureIgnored ==
    \A l \in 1..Len(loops) :
        (loops[l].origin = "reload" /\ loops[l].pc = "bind failed") => ~exited

\* the record updatePortPasswd got from the registry carries the password it
\* was called with
SamePassword(r) ==
    r.pc = "update" /\ r.pl # NoRecord /\ r.pl.password = r.password

\* C18: when the registry holds a record for the port with the same password,
\* updatePortPasswd(port, password) closes no listener, starts no server loop
\* and leaves the registry unchanged: neither its lookup nor its return
\* changes any of them.
C18_SamePasswordIsNoOp ==
    [][((SamePassword(reload) \/ SamePassword(reload')) /\ reload' # reload)
          => UNCHANGED <<portListener, listeners, loops>>]_vars

\* such a call has returned; the port's listener is still open and registered
C18_Witness ==
    /\ hist.lastCall.kind = "unchanged"
    /\ reload.pc = "range"
    /\ portListener[hist.lastCall.port].password = hist.lastCall.password
    /\ portListener[hist.lastCall.port].listener
           \in OpenOn(listeners, hist.lastCall.port)

\* the steps at which a task is inside a critical section of add, get or del
LoopLocked(l) == loops[l].pc = "add locked"
ReloadLocked == reload.pc \in {"get", "del get", "del delete"}

\* the step that ends a critical section
Release ==
    \/ \E l \in 1..Len(loops) : LoopAdd(l)
    \/ UpdGet
    \/ DelGet
    \/ DelDelete

\* C20: every read and write of the registry map is made by the task holding
\* the lock, which releases it in the same add/get/delete step; a task holds
\* the lock at no other step (not at bind, listener close, accept or spawn);
\* hence the holder can always release it and no task waits for it forever.
C20_LockDiscipline ==
    /\ [](/\ \A l \in 1..Len(loops) : LoopLocked(l) <=> mu = RunTask(l)
          /\ ReloadLocked <=> mu = ReloadTask
          /\ (mu # NoTask /\ ~exited) => ENABLED Release)
    /\ [][portListener' # portListener => (mu # NoTask /\ mu' = NoTask)]_vars
    /\ [][reload'.pl \notin {reload.pl, NoRecord}
            => (mu = ReloadTask /\ mu' = NoTask)]_vars
    /\ [][(listeners' # listeners \/ loops' # loops) /\ mu' = mu
            => (\A l \in 1..Len(loops) :
                   loops'[l] # loops[l] => mu # RunTask(l))]_vars

\* a run goroutine waits for the lock while updatePasswd is inside get
C20_Witness ==
    /\ mu = ReloadTask
    /\ \E l \in 1..Len(loops) : loops[l].pc = "add"
    /\ \E p \in Ports : portListener[p] # NoRecord

\* C22: at a quiescent point every open listener with a running accept loop is
\* the listener of the registry record of its port, however del and
\* updatePortPasswd interleaved with the startup of a run spawned before.
C22_OpenListenersRegistered ==
    Quiescent
        => \A l \in 1..Len(loops) :
              (loops[l].pc = "accept" /\ listeners[loops[l].ln].open)
                  => portListener[loops[l].port].listener = loops[l].ln

\* the connections for which a handler was started
Spawned == {i \in 1..Len(accepted) : accepted[i].relay # "none"}

\* C11: once updatePortPasswd (password change) or del (removal) has closed a
\* port's listener, the handlers already spawned from that listener keep their
\* client socket, their destination socket and their relay untouched until
\* they terminate on their own.
C11_RestartLeavesHandlers ==
    \A i \in 1..Len(accepted) :
        (accepted[i].ln \in hist.closed /\ accepted[i].relay \notin {"ended", "none"})
            => /\ accepted[i].client = "open"
               /\ accepted[i].remote = "open"
               /\ accepted[i].relay = "running"

\* C19: every handler a server loop spawns holds its own cipher instance: no
\* two handlers hold the same instance and none holds a loop's template.
C19_OwnCipherCopy ==
    /\ \A i, j \in Spawned :
          i # j => accepted[i].cipher # accepted[j].cipher
    /\ \A i \in Spawned : \A l \in 1..Len(loops) :
          accepted[i].cipher # loops[l].cipher

\* one server loop has spawned two handlers, both relaying
C19_Witness ==
    /\ Len(accepted) = 2
    /\ accepted[1].ln = accepted[2].ln
    /\ accepted[1].relay = "running" /\ accepted[2].relay = "running"

\* the step in which the server loop l accepts a connection
Accepts(l) ==
    /\ Len(accepted') = Len(accepted) + 1
    /\ loops[l].ln # 0
    /\ accepted'[Len(accepted')].ln = loops[l].ln

\* C21: when the construction of the cipher template fails for an accepted
\* connection, that connection is closed and gets no handler, the server loop
\* stays in its accept loop without a template, and nothing else changes: the
\* other loops, the listeners, the registry and the connections accepted
\* before; a loop without a template builds it at the next connection it
\* accepts once the method is recognized.
C21_CipherFailureDropsConnection ==
    /\ [][\A l \in 1..Len(loops) :
            (Accepts(l) /\ loops[l].cipher = 0 /\ ~Supported(method))
                => /\ accepted'[Len(accepted')].client = "closed"
                   /\ accepted'[Len(accepted')].relay = "none"
                   /\ SubSeq(accepted', 1, Len(accepted)) = accepted
                   /\ loops' = loops
                   /\ UNCHANGED <<listeners, portListener, exited>>]_vars
    /\ [][\A l \in 1..Len(loops) :
            (Accepts(l) /\ loops[l].cipher = 0 /\ Supported(method))
                => /\ loops'[l].cipher # 0
                   /\ loops'[l].pc = "accept"
                   /\ accepted'[Len(accepted')].relay = "running"]_vars

\* a server loop dropped a connection for want of a cipher and, after a
\* reload named a recognized method, serves the next one; the loop of the
\* other port is in its accept loop
C21_Witness ==
    /\ Len(accepted) = 2
    /\ accepted[1].relay = "none"
    /\ accepted[2].relay = "running"
    /\ accepted[1].ln = accepted[2].ln
    /\ \E l \in 1..Len(loops) :
          /\ loops[l].pc = "accept"
          /\ loops[l].ln # accepted[1].ln
          /\ listeners[loops[l].ln].open

\* the server loops that listen and have built their cipher template
Serving ==
    {l \in 1..Len(loops) :
        /\ loops[l].pc = "accept"
        /\ listeners[loops[l].ln].open
        /\ loops[l].built # ""}

\* C25: a server loop builds its cipher template with the method of the
\* configuration snapshot its port and password were taken from, whatever
\* reload replaced the global config before its first connection, and once a
\* reload is done no two listening ports use different methods.
C25_LoopUsesSnapshotMethod ==
    /\ \A l \in 1..Len(loops) :
          loops[l].built # "" => loops[l].built = loops[l].snapshot
    /\ (Quiescent /\ hist.done > 0)
          => \A l, k \in Serving : loops[l].built = loops[k].built


(***************************************************************************)
(* getRequest.  The file holds the function twice: the first (lines 44-112)*)
(* makes one conn.Read and decodes what it returned; the second (lines     *)
(* 510-566) reads the request piece by piece with io.ReadFull.  A request  *)
(* is its address type byte, its address bytes and its port; a result is   *)
(* the error, or the host (its kind and bytes, as net.IP.String() or       *)
(* string() print them) and the port net.JoinHostPort joins to it.         *)
(***************************************************************************)
AddrMask == 15
idType == 0
idIP0 == 1
idDmLen == 1
idDm0 == 2
typeIPv4 == 1
typeDm == 3
typeIPv6 == 4
IPv4len == 4
IPv6len == 16
lenIPv4 == IPv4len + 2
lenIPv6 == IPv6len + 2
lenDmBase == 2

\* make([]byte, 2048), line 52
BufSize == 2048
ReqBufSize == 269

\* binary.BigEndian.Uint16
Uint16(b) == b[1] * 256 + b[2]

\* addrType & AddrMask
Masked(addrType) == BitAnd(addrType, AddrMask)

\* what getRequest returns
Panic == [err |-> "panic", atyp |-> 0, host |-> <<>>, port |-> 0]
Unsupported ==
    [err |-> "addr type not supported", atyp |-> 0, host |-> <<>>, port |-> 0]
ReadError == [err |-> "EOF", atyp |-> 0, host |-> <<>>, port |-> 0]
NoResult == [err |-> "none", atyp |-> 0, host |-> <<>>, port |-> 0]
HostPort(atyp, host, port) ==
    [err |-> "", atyp |-> atyp, host |-> host, port |-> port]

\* data[i] within cap(data): a byte beyond len(data) is whatever the array
\* behind the slice holds
ByteAt(data, i, stale) == IF i < Len(data) THEN data[i + 1] ELSE stale

\* data[lo:hi] within cap(data)
Slice(data, lo, hi, stale) ==
    [j \in 1..(hi - lo) |-> ByteAt(data, lo + j - 1, stale)]

\* lines 79-85 and 528-537: reqEnd from the type and the length byte
ReqEnd(t, dmLen) ==
    CASE t = typeIPv4 -> idIP0 + lenIPv4
      [] t = typeIPv6 -> idIP0 + lenIPv6
      [] OTHER -> idDm0 + dmLen + lenDmBase

\* lines 100-110 and 554-564: the host and the port out of the request bytes
Decode(t, data, reqEnd, stale) ==
    HostPort(t,
             CASE t = typeIPv4 -> Slice(data, idIP0, idIP0 + IPv4len, stale)
               [] t = typeIPv6 -> Slice(data, idIP0, idIP0 + IPv6len, stale)
               [] OTHER -> Slice(data, idDm0, reqEnd - lenDmBase, stale),
             Uint16(Slice(data, reqEnd - 2, reqEnd, stale)))

\* getRequest, lines 62-111, on the data of the one conn.Read: with no data,
\* data[:idType+1] panics beyond cap(data) and io.ReadFull returns io.EOF
\* otherwise; data[idDmLen] panics beyond len(data), a slice expression
\* beyond cap(data)
getRequest(data, cap, stale) ==
    IF Len(data) < idType + 1
    THEN IF cap < idType + 1 THEN Panic ELSE ReadError
    ELSE
    LET t == Masked(data[idType + 1]) IN
    IF t \notin {typeIPv4, typeIPv6, typeDm} THEN Unsupported
    ELSE IF t = typeDm /\ ~(idDmLen < Len(data)) THEN Panic
    ELSE LET reqEnd == ReqEnd(t, ByteAt(data, idDmLen, stale))
         IN  IF reqEnd > cap THEN Panic
             ELSE Decode(t, data, reqEnd, stale)

\* a request a client sends, and its bytes on the wire (after decryption)
Request(atyp, addr, port) == [atyp |-> atyp, addr |-> addr, port |-> port]
NoRequest == Request(0, <<>>, 0)

Encode(r) ==
    <<r.atyp>>
      \o (IF Masked(r.atyp) = typeDm THEN <<Len(r.addr)>> ELSE <<>>)
      \o r.addr
      \o <<r.port \div 256, r.port % 256>>

\* "example.com"
ExampleCom == <<101, 120, 97, 109, 112, 108, 101, 46, 99, 111, 109>>

Requests ==
    { Request(1, <<10, 0, 0, 1>>, 80),
      Request(17, <<127, 0, 0, 1>>, 8080),
      Request(4, [i \in 1..16 |-> i], 443),
      Request(3, ExampleCom, 443),
      Request(3, <<>>, 53),
      Request(3, [i \in 1..255 |-> 97], 65535),
      Request(2, <<1, 2>>, 1) }

ReqInit ==
    rq = [copy |-> 0, sent |-> NoRequest, bytes |-> <<>>, arrived |-> 0,
          pc |-> "idle", reqEnd |-> 0, result |-> NoResult]

\* a client connects and sends r; copy is the getRequest the server runs
Connect(copy, r) ==
    /\ OnlyReq
    /\ rq.pc = "idle"
    /\ rq' = [rq EXCEPT !.copy = copy, !.sent = r, !.bytes = Encode(r),
                        !.pc = "read"]

\* k more bytes of the request arrive
Arrive(k) ==
    /\ OnlyReq
    /\ rq.pc \notin {"idle", "done"}
    /\ k >= 1 /\ rq.arrived + k <= Len(rq.bytes)
    /\ rq' = [rq EXCEPT !.arrived = @ + k]

\* lines 54-111: conn.Read returns the bytes that have arrived and UnPack
\* their plaintext, the request bytes among them (none if only the salt or
\* a part of a chunk has arrived); the slice UnPack returns ends at its
\* array or has room behind it
ReadOnce(roomy, stale) ==
    /\ OnlyReq
    /\ rq.copy = 1 /\ rq.pc = "read"
    /\ LET data == SubSeq(rq.bytes, 1, rq.arrived)
           cap == IF roomy THEN BufSize ELSE Len(data)
       IN  rq' = [rq EXCEPT !.pc = "done",
                            !.result = getRequest(data, cap, stale)]

\* lines 518-545: io.ReadFull of the type byte
ReadType ==
    /\ OnlyReq
    /\ rq.copy = 2 /\ rq.pc = "read"
    /\ rq.arrived >= idType + 1
    /\ LET t == Masked(rq.bytes[idType + 1])
       IN  rq' = IF t = typeDm THEN [rq EXCEPT !.pc = "dmlen"]
                 ELSE IF t \in {typeIPv4, typeIPv6}
                 THEN [rq EXCEPT !.pc = "rest", !.reqEnd = ReqEnd(t, 0)]
                 ELSE [rq EXCEPT !.pc = "done", !.result = Unsupported]

\* lines 534-537: io.ReadFull of the length byte
ReadDmLen ==
    /\ OnlyReq
    /\ rq.copy = 2 /\ rq.pc = "dmlen"
    /\ rq.arrived >= idDmLen + 1
    /\ rq' = [rq EXCEPT !.pc = "rest",
                        !.reqEnd = ReqEnd(typeDm, rq.bytes[idDmLen + 1])]

\* lines 547-565: io.ReadFull of buf[reqStart:reqEnd], then the decoding
ReadRest ==
    /\ OnlyReq
    /\ rq.copy = 2 /\ rq.pc = "rest"
    /\ rq.arrived >= rq.reqEnd
    /\ rq' = [rq EXCEPT !.pc = "done",
                        !.result = Decode(Masked(rq.bytes[idType + 1]),
                                          SubSeq(rq.bytes, 1, rq.reqEnd),
                                          rq.reqEnd, 0)]

ReqNext ==
    \/ \E copy \in {1, 2}, r \in Requests : Connect(copy, r)
    \/ \E k \in 1..Len(rq.bytes) : Arrive(k)
    \/ \E roomy \in BOOLEAN, stale \in {0, 255} : ReadOnce(roomy, stale)
    \/ ReadType
    \/ ReadDmLen
    \/ ReadRest

(***************************************************************************)
(* getRequest: the claims.                                                 *)
(***************************************************************************)
\* the address type of the request is IPv4, IPv6 or domain
ValidRequest(r) == Masked(r.atyp) \in {typeIPv4, typeIPv6, typeDm}

\* C14: for every request of type 1 (IPv4), 4 (IPv6) or 3 (domain, length
\* byte L), getRequest returns the host made of the 4, 16 or L address bytes
\* and the port that is the big-endian value of the two bytes after them.
C14_RequestDecoded ==
    (rq.pc = "done" /\ ValidRequest(rq.sent)) =>
        rq.result = HostPort(Masked(rq.sent.atyp), rq.sent.addr, rq.sent.port)

\* the number of bytes of data the first getRequest uses: the upper end of
\* data[:idType+1], of data[idDmLen] and of the slices up to reqEnd
Needed(data) ==
    IF Len(data) < idType + 1 THEN idType + 1
    ELSE LET t == Masked(data[idType + 1]) IN
         IF t \notin {typeIPv4, typeIPv6, typeDm} THEN idType + 1
         ELSE IF t = typeDm /\ Len(data) < idDmLen + 1 THEN idDmLen + 1
         ELSE ReqEnd(t, ByteAt(data, idDmLen, 0))

\* C23: getRequest uses no byte of its buffer at or beyond the number of
\* bytes it has obtained, nor beyond the capacity of the buffer, whatever the
\* address type, the domain length and the length of the first read; it
\* never panics.
C23_AccessesInRange ==
    /\ rq.result # Panic
    /\ (rq.copy = 1 /\ rq.pc = "done")
          => Needed(SubSeq(rq.bytes, 1, rq.arrived)) <= rq.arrived
    /\ rq.copy = 2
          => rq.reqEnd <= ReqBufSize /\ (rq.pc = "done" => rq.reqEnd <= rq.arrived)

\* C15: however the request bytes are split across reads, getRequest returns
\* what it returns when they arrive in one read, and it returns only once
\* the whole request has arrived.
C15_SplitReadsSameResult ==
    (rq.pc = "done" /\ ValidRequest(rq.sent)) =>
        /\ rq.arrived >= Len(rq.bytes)
        /\ rq.result = getRequest(rq.bytes, Len(rq.bytes), 0)


(***************************************************************************)
(* Specifications.  A ConnAead, a connection handler, the PasswdManager    *)
(* and a getRequest call share no variable, so a property of one part is a *)
(* property of the whole program; each part is checked under its own       *)
(* specification, in which the others stay in their initial state.         *)
(* SpecServe is the PasswdManager part with the connections the server     *)
(* loops accept, for one port at startup; SpecMethod is the same for two   *)
(* ports and reloads that change the method; SpecDuplex is one ConnAead    *)
(* used for both directions of a connection.                               *)
(***************************************************************************)
Init == AeadInit /\ ConnInitState /\ MgrInit /\ ReqInit /\ DuplexInit

Next ==
    \/ AeadNext
    \/ ConnNext
    \/ MgrNext
    \/ ServeNext
    \/ MethodNext
    \/ ReqNext
    \/ DuplexNext

Spec == Init /\ [][Next]_vars

\* the parts, each on its own
SpecAead == Init /\ [][AeadNext]_vars

SpecServe == Init /\ [][ServeNext]_vars

SpecConn == Init /\ [][ConnNext]_vars

SpecDuplex == Init /\ [][DuplexNext]_vars

SpecMethod == Init /\ [][MethodNext]_vars

SpecMgr == Init /\ [][MgrNext]_vars

SpecReq == Init /\ [][ReqNext]_vars

\* a goroutine that can take a step takes it; a relay direction whose socket
\* has been closed returns
FairSpecConn ==
    /\ SpecConn
    /\ \A c \in ConnIds :
          /\ WF_vars(HandlerAfterRelay(c))
          /\ WF_vars(HandlerDeferRemote(c))
          /\ WF_vars(HandlerDeferLoad(c))
          /\ WF_vars(HandlerDeferCleanup(c))
          /\ \A d \in {"dec", "enc"} : WF_vars(RelayEndOnClosed(c, d))

====
